---- MODULE Spec2Model ----
(***************************************************************************)
(* A model of jupyterlab_git/git.py: the GitAuthInputWrapper credential    *)
(* channel and the Git facade (clone/pull/push, config, changed_files,     *)
(* branch and the plain check_output operations).                          *)
(*                                                                         *)
(* The facade is stateless between calls, so every component has its own   *)
(* variables and its own specification (SpecAuth, SpecConfig, SpecOps,     *)
(* SpecBranch).  SpecAuth starts in any host environment (InitAnyHost),  *)
(* the others in the default one (Init).                                   *)
(***************************************************************************)
EXTENDS Integers, Sequences, FiniteSets, TLC

(* ------------------------------ bounds -------------------------------- *)
\* longest sequence of output events of a child attached to the pty
MaxScript == 3
\* most keyword arguments of one config() call
MaxKwargs == 2
\* most lines of one `git config --list` output
MaxLines == 2
\* most local branches, and most remote branches, of the repository
MaxRefs == 2
\* most commits in one `git log` output
MaxCommits == 2
\* most lines in one `git status --porcelain` output
MaxStatusLines == 2
\* most files modified by the commit detailed_log describes
MaxFiles == 2

VARIABLES
    \* ---- clone / pull / push and GitAuthInputWrapper.communicate
    osEnviron,    \* os.environ of the host process
    authPc,       \* position in clone/pull/push and in communicate()
    call,         \* the operation called and its auth argument
    env,          \* the per-call environment handed to the child
    runner,       \* "auth" (GitAuthInputWrapper), "popen" (subprocess.Popen)
    child,        \* the spawned child: what it prints, how it ends
    pos,          \* index of the child's next unread output event
    p,            \* the pexpect handle: before, exitstatus, closed, waited
    written,      \* lines written to the pseudo-terminal (sendline)
    matched,      \* prompts matched by p.expect so far
    returncode,   \* p.returncode read by clone/pull/push
    error,        \* the transcript / stderr clone/pull/push received
    response,     \* the envelope clone/pull/push returns
    exc,          \* the exception that left the operation, or "none"
    \* ---- config
    gitConfig,    \* the repository's configuration: the (key, value) pairs set
    cfgPc,        \* position in config()
    kwargs,       \* the keyword arguments, in order
    todo,         \* the filtered items the for loop has still to visit
    invoked,      \* the `git config` commands run by this call, with exit codes
    output,       \* the list `output` of set mode
    cfgResponse,  \* the envelope config() returns
    \* ---- changed_files and the check_output operations
    opPc,         \* "idle", "done" (returned) or "raised"
    opCall,       \* the operation called and its arguments
    opRan,        \* the commands handed to a subprocess by this call
    opExit,       \* the exit code of the child, None when none ran
    opOut,        \* what the child printed
    opResult,     \* the value returned
    opExc,        \* the exception that left the operation, or "none"
    \* ---- branch
    brPc,         \* position in branch() and its helpers
    headsOut,     \* output lines of the refs/heads query
    brRan,        \* the queries run by this call, in order
    heads,        \* what branch_heads returned
    remotes,      \* what branch_remotes returned
    brResult,     \* the envelope branch() returns
    lookups,      \* the outcomes of the current-branch lookups of this call
    \* ---- the parsers: log, status, detailed_log
    prPc,         \* "idle", "done" (returned) or "raised"
    prCall,       \* the operation called, the child's exit code and output
    prResult,     \* the envelope returned
    prExc,        \* the exception that left the operation, or "none"
    \* ---- show and diff_content
    ctPc,         \* "idle", "done" (returned) or "raised"
    ctCall,       \* the operation called and its arguments
    ctRan,        \* the reads made by this call, in order, with their outcomes
    ctResult,     \* the value returned
    ctExc         \* the exception that left the operation, or "none"

authVars == <<osEnviron, authPc, call, env, runner, child, pos, p, written,
              matched, returncode, error, response, exc>>

cfgVars == <<gitConfig, cfgPc, kwargs, todo, invoked, output, cfgResponse>>

opVars == <<opPc, opCall, opRan, opExit, opOut, opResult, opExc>>
brVars == <<brPc, headsOut, brRan, heads, remotes, brResult, lookups>>

prVars == <<prPc, prCall, prResult, prExc>>
ctVars == <<ctPc, ctCall, ctRan, ctResult, ctExc>>

vars == <<authVars, cfgVars, opVars, brVars, prVars, ctVars>>

(* --------------------------- Python values ---------------------------- *)
\* None where the code expects an exit status (p.exitstatus before the child
\* has been reaped); exit statuses are 0..255, so -1 is free
PyNone == -1

ExitStatuses == {0, 1, 128}

(* ===================================================================== *)
(*            clone / pull / push and the interactive channel            *)
(* ===================================================================== *)

EnvKeys == {"GIT_TERMINAL_PROMPT", "HOME"}
HostEnvs ==
    { [k \in EnvKeys |-> IF k = "HOME" THEN "/root" ELSE v] : v \in {"unset", "0", "1"} }

\* auth arguments: None, an empty dict (falsy), a credentials dict
AuthNone == [kind |-> "None", username |-> "", password |-> ""]
AuthEmpty == [kind |-> "emptydict", username |-> "", password |-> ""]
Credentials == [kind |-> "dict", username |-> "u", password |-> "p"]
Auths == {AuthNone, AuthEmpty, Credentials}
\* the truth value `if (auth):` tests
Truthy(a) == a.kind = "dict"

Events == {"Username", "Password", "Other"}
Scripts == UNION { [1..n -> Events] : n \in 0..MaxScript }
Children == [script : Scripts, term : {"exit", "hang"}, status : ExitStatuses]

NoChild == [script |-> <<>>, term |-> "exit", status |-> 0]
NoHandle == [spawned |-> FALSE, before |-> <<>>, exitstatus |-> PyNone,
             closed |-> FALSE, waited |-> FALSE]

\* a slip that drops the copy: env = os.environ
SetPrompt_in_place(a) ==
    /\ osEnviron' = [osEnviron EXCEPT !["GIT_TERMINAL_PROMPT"] = IF Truthy(a) THEN "1" ELSE "0"]
    /\ env' = osEnviron'

\* os.environ.copy() followed by env["GIT_TERMINAL_PROMPT"] = "1" / "0"
SetPrompt(a) ==
    /\ env' = [osEnviron EXCEPT !["GIT_TERMINAL_PROMPT"] = IF Truthy(a) THEN "1" ELSE "0"]
    /\ osEnviron' = osEnviron

\* which runner the operation hands the command to
ChooseRunner(a) == IF Truthy(a) THEN "auth" ELSE "popen"

\* the common body of clone, pull and push up to the communicate() call
AuthOp(op, a) ==
    /\ authPc \in {"idle", "done", "raised"}
    /\ call' = [op |-> op, auth |-> a]
    /\ SetPrompt(a)
    /\ runner' = ChooseRunner(a)
    /\ authPc' = IF ChooseRunner(a) = "auth" THEN "spawn" ELSE "popen"
    /\ child' = NoChild
    /\ pos' = 1
    /\ p' = NoHandle
    /\ written' = <<>>
    /\ matched' = <<>>
    /\ returncode' = PyNone
    /\ error' = <<>>
    /\ response' = [code |-> PyNone]
    /\ exc' = "none"
    /\ UNCHANGED <<cfgVars, opVars, brVars, prVars, ctVars>>

clone == \E a \in Auths : AuthOp("clone", a)
pull  == \E a \in Auths : AuthOp("pull", a)
push  == \E a \in Auths : AuthOp("push", a)

\* p = pexpect.spawn(command, cwd, env)
spawn ==
    /\ authPc = "spawn"
    /\ \E c \in Children : child' = c
    /\ pos' = 1
    /\ p' = [NoHandle EXCEPT !.spawned = TRUE]
    /\ authPc' = "expect_prompt"
    /\ UNCHANGED <<osEnviron, call, env, runner, written, matched, returncode,
                   error, response, exc>>
    /\ UNCHANGED <<cfgVars, opVars, brVars, prVars, ctVars>>

\* p.expect(pats) on a child that has printed c.script[1..k-1] already.  The
\* child prints a prompt and then blocks reading the terminal, so a prompt
\* that is not awaited ends the wait in TIMEOUT; the end of the output is
\* end-of-stream when the child exits and TIMEOUT when it hangs.  i is the
\* 0-based index of the matched pattern, pos the next unread event.
RECURSIVE expect(_, _, _)
expect(pats, c, k) ==
    IF k > Len(c.script)
    THEN IF c.term = "hang" THEN [kind |-> "TIMEOUT", i |-> 0, pos |-> k]
         ELSE IF \E j \in 1..Len(pats) : pats[j] = "EOF"
              THEN [kind |-> "match",
                    i |-> (CHOOSE j \in 1..Len(pats) : pats[j] = "EOF") - 1,
                    pos |-> k]
              ELSE [kind |-> "EOF", i |-> 0, pos |-> k]
    ELSE IF \E j \in 1..Len(pats) : pats[j] = c.script[k]
         THEN [kind |-> "match",
               i |-> (CHOOSE j \in 1..Len(pats) : pats[j] = c.script[k]) - 1,
               pos |-> k + 1]
         ELSE IF c.script[k] = "Other"
              THEN expect(pats, c, k + 1)
              ELSE [kind |-> "TIMEOUT", i |-> 0, pos |-> k]

IsOutput(e) == e = "Other"
\* p.before after an expect that read the events k..r.pos-1
Before(c, k, r) ==
    SelectSeq(SubSeq(c.script, k, IF r.pos - 1 > Len(c.script) THEN Len(c.script) ELSE r.pos - 1),
              IsOutput)

\* what p.exitstatus can hold when expect raises EOF.  pexpect sets the
\* attribute only when it reaps the child (isalive(), wait(), close()); line
\* 62 reads it before close() and without wait(), so it holds the child's
\* status if the child happened to be reaped during the read and None if not
ExitStatusAtEOF(c) == {c.status, PyNone}

\* a slip that ignores which prompt matched
AfterMatch_ignoring_index(here, i) ==
    CASE here = "expect_prompt" -> "send_username"
      [] here = "expect_password" -> "send_password"
      [] here = "expect_eof" -> "wait"
\* where communicate() goes on after the expect at `here` matched pattern i:
\* if i==0: ... elif i==1: ... after the first, straight on after the others
AfterMatch(here, i) ==
    CASE here = "expect_prompt" -> (IF i = 0 THEN "send_username" ELSE "send_password")
      [] here = "expect_password" -> "send_password"
      [] here = "expect_eof" -> "wait"

\* one p.expect(pats) at position `here`: a match goes on at AfterMatch, EOF
\* in the handler of line 60, TIMEOUT leaves communicate() and the operation
ExpectAt(here, pats) ==
    /\ authPc = here
    /\ LET r == expect(pats, child, pos) IN
       /\ pos' = r.pos
       /\ CASE r.kind = "match" ->
                 /\ p' = [p EXCEPT !.before = Before(child, pos, r)]
                 /\ matched' = Append(matched, pats[r.i + 1])
                 /\ authPc' = AfterMatch(here, r.i)
                 /\ exc' = exc
            [] r.kind = "EOF" ->
                 /\ \E s \in ExitStatusAtEOF(child) :
                       p' = [p EXCEPT !.before = Before(child, pos, r), !.exitstatus = s]
                 /\ matched' = matched
                 /\ authPc' = "except_eof"
                 /\ exc' = exc
            [] r.kind = "TIMEOUT" ->
                 /\ p' = [p EXCEPT !.before = Before(child, pos, r)]
                 /\ matched' = matched
                 /\ authPc' = "raised"
                 /\ exc' = "TIMEOUT"
    /\ UNCHANGED <<osEnviron, call, env, runner, child, written, returncode,
                   error, response>>
    /\ UNCHANGED <<cfgVars, opVars, brVars, prVars, ctVars>>

\* i = p.expect(['Username for .*: ', 'Password for .*:'])
expect_prompt == ExpectAt("expect_prompt", <<"Username", "Password">>)
\* p.expect('Password for .*:')
expect_password == ExpectAt("expect_password", <<"Password">>)
\* p.expect(pexpect.EOF); response = p.before
expect_eof == ExpectAt("expect_eof", <<"EOF">>)

\* p.sendline(line) at position `here`
SendLine(here, line, next) ==
    /\ authPc = here
    /\ written' = Append(written, line)
    /\ authPc' = next
    /\ UNCHANGED <<osEnviron, call, env, runner, child, pos, p, matched,
                   returncode, error, response, exc>>
    /\ UNCHANGED <<cfgVars, opVars, brVars, prVars, ctVars>>

\* a slip that answers the username prompt with the password
send_username_swapped == SendLine("send_username", call.auth.password, "expect_password")
\* p.sendline(self.username)
send_username == SendLine("send_username", call.auth.username, "expect_password")
\* p.sendline(self.password), in either branch
send_password == SendLine("send_password", call.auth.password, "expect_eof")

\* self.returncode = p.wait(); p.close(); return response
wait_close ==
    /\ authPc = "wait"
    /\ p' = [p EXCEPT !.exitstatus = child.status, !.waited = TRUE, !.closed = TRUE]
    /\ returncode' = child.status
    /\ error' = p.before
    /\ authPc' = "return"
    /\ UNCHANGED <<osEnviron, call, env, runner, child, pos, written, matched,
                   response, exc>>
    /\ UNCHANGED <<cfgVars, opVars, brVars, prVars, ctVars>>

\* except pexpect.exceptions.EOF: response = p.before;
\* self.returncode = p.exitstatus; p.close(); return response
except_eof ==
    /\ authPc = "except_eof"
    /\ returncode' = p.exitstatus
    /\ error' = p.before
    /\ p' = [p EXCEPT !.closed = TRUE]
    /\ authPc' = "return"
    /\ UNCHANGED <<osEnviron, call, env, runner, child, pos, written, matched,
                   response, exc>>
    /\ UNCHANGED <<cfgVars, opVars, brVars, prVars, ctVars>>

\* _, error = subprocess.Popen(..., env=env).communicate()
popen ==
    /\ authPc = "popen"
    /\ \E s \in ExitStatuses :
          /\ returncode' = s
          /\ error' = IF s = 0 THEN <<>> ELSE <<"stderr">>
    /\ authPc' = "return"
    /\ UNCHANGED <<osEnviron, call, env, runner, child, pos, p, written,
                   matched, response, exc>>
    /\ UNCHANGED <<cfgVars, opVars, brVars, prVars, ctVars>>

\* response = {"code": p.returncode}; message when the code is not 0
Envelope(rc, err) ==
    IF rc # 0 THEN [code |-> rc, message |-> err] ELSE [code |-> rc]

auth_return ==
    /\ authPc = "return"
    /\ response' = Envelope(returncode, error)
    /\ authPc' = "done"
    /\ UNCHANGED <<osEnviron, call, env, runner, child, pos, p, written,
                   matched, returncode, error, exc>>
    /\ UNCHANGED <<cfgVars, opVars, brVars, prVars, ctVars>>

NextAuth ==
    \/ clone \/ pull \/ push
    \/ spawn
    \/ expect_prompt \/ send_username \/ expect_password \/ send_password
    \/ expect_eof \/ wait_close \/ except_eof
    \/ popen
    \/ auth_return

DefaultEnv == [k \in EnvKeys |-> IF k = "HOME" THEN "/root" ELSE "unset"]

\* the host process starts with one of the environments E
InitHost(E) ==
    /\ osEnviron \in E
    /\ env = osEnviron

InitAuth ==
    /\ authPc = "idle"
    /\ call = [op |-> "none", auth |-> AuthNone]
    /\ runner = "none"
    /\ child = NoChild
    /\ pos = 1
    /\ p = NoHandle
    /\ written = <<>>
    /\ matched = <<>>
    /\ returncode = PyNone
    /\ error = <<>>
    /\ response = [code |-> PyNone]
    /\ exc = "none"


(* ===================================================================== *)
(*                              Git.config                               *)
(* ===================================================================== *)

\* a key, a value and a line of output are sequences of tokens; "Q" is the
\* double quote character and "=" the equals sign
Tokens == {"Q", "=", "user.name", "core.editor"}
\* every line of at most two tokens, and the lines key=token
Lines ==
    UNION { [1..n -> Tokens] : n \in 0..2 }
    \cup { <<k, "=", t>> : k \in {"user.name", "core.editor"}, t \in Tokens }
Listings == UNION { [1..n -> Lines] : n \in 0..MaxLines }

ALLOWED_OPTIONS == { <<"user.name">>, <<"user.email">> }
OptionKeys == { <<"user.name">>, <<"user.email">>, <<"core.editor">> }
OptionValue == <<"v">>

\* kwargs is a dict: its keys are distinct
Kwargs ==
    { kw \in UNION { [1..n -> OptionKeys] : n \in 0..MaxKwargs } :
        \A i, j \in 1..Len(kw) : i # j => kw[i] # kw[j] }

\* a slip that lets every key through
Allowed_any(k) == TRUE
\* `k in ALLOWED_OPTIONS`
Allowed(k) == k \in ALLOWED_OPTIONS

\* filter(lambda t: True if t[0] in ALLOWED_OPTIONS else False, kwargs.items())
Filtered(kw) == SelectSeq(kw, Allowed)

\* cmd = ["git", "config", "--add", k, v]
AddCmd(k) == <<"git", "config", "--add", k, OptionValue>>
ListCmd == <<"git", "config", "--list">>

\* str.strip() of text held as a list of lines: empty lines at both ends go
RECURSIVE StripLeft(_)
StripLeft(ls) == IF ls # <<>> /\ Head(ls) = <<>> THEN StripLeft(Tail(ls)) ELSE ls
RECURSIVE StripRight(_)
StripRight(ls) ==
    IF ls # <<>> /\ ls[Len(ls)] = <<>> THEN StripRight(SubSeq(ls, 1, Len(ls) - 1)) ELSE ls
Strip(ls) == StripRight(StripLeft(ls))
\* raw.split("\n"): the empty text splits into one empty line
SplitLines(ls) == IF ls = <<>> THEN << <<>> >> ELSE ls

\* a slip that goes on with the next key after a failed `git config --add`
AfterAdd_no_abort(rc) == "set_loop"
\* if p.returncode != 0: ...; return response
AfterAdd(rc) == IF rc # 0 THEN "done" ELSE "set_loop"

\* a slip that starts from success
InitialResponse_success == [code |-> 0]
\* response = {"code": 1}
InitialResponse == [code |-> 1]

\* config(top_repo_path, **kwargs): the initial response, then the mode
config ==
    /\ cfgPc \in {"idle", "done"}
    /\ \E kw \in Kwargs :
          /\ kwargs' = kw
          /\ IF Len(kw) > 0
             THEN /\ todo' = Filtered(kw)
                  /\ cfgPc' = "set_loop"
             ELSE /\ todo' = <<>>
                  /\ cfgPc' = "list"
    /\ cfgResponse' = InitialResponse
    /\ output' = <<>>
    /\ invoked' = <<>>
    /\ UNCHANGED gitConfig
    /\ UNCHANGED <<authVars, opVars, brVars, prVars, ctVars>>

\* one turn of the for loop: run `git config --add k v`
config_add ==
    /\ cfgPc = "set_loop"
    /\ todo # <<>>
    /\ LET k == Head(todo) IN
       \E rc \in ExitStatuses :
          /\ invoked' = Append(invoked, [cmd |-> AddCmd(k), rc |-> rc])
          /\ gitConfig' = IF rc = 0 THEN gitConfig \cup {<<k, OptionValue>>} ELSE gitConfig
          /\ output' = Append(output, <<>>)
          /\ cfgResponse' =
                IF rc # 0
                THEN [code |-> rc, command |-> AddCmd(k), message |-> <<"stderr">>]
                ELSE [code |-> rc]
          /\ todo' = Tail(todo)
          /\ cfgPc' = AfterAdd(rc)
    /\ UNCHANGED kwargs
    /\ UNCHANGED <<authVars, opVars, brVars, prVars, ctVars>>

\* the loop is over: response["message"] = "\n".join(output).strip()
config_set_return ==
    /\ cfgPc = "set_loop"
    /\ todo = <<>>
    /\ cfgResponse' = [code |-> cfgResponse.code, message |-> Strip(output)]
    /\ cfgPc' = "done"
    /\ UNCHANGED <<gitConfig, kwargs, todo, invoked, output>>
    /\ UNCHANGED <<authVars, opVars, brVars, prVars, ctVars>>

StartsWithQuote(l) == l # <<>> /\ l[1] = "Q"
HasEquals(l) == \E j \in 1..Len(l) : l[j] = "="
FirstEquals(l) == CHOOSE j \in 1..Len(l) : l[j] = "=" /\ \A i \in 1..(j - 1) : l[i] # "="
\* key, v = l.split("=", maxsplit=1)
KeyOf(l) == SubSeq(l, 1, FirstEquals(l) - 1)
ValueOf(l) == SubSeq(l, FirstEquals(l) + 1, Len(l))

\* the body of `for l in raw.split("\n")` on the state st = (options, previous_key)
ParseLine(st, l) ==
    IF StartsWithQuote(l) /\ st.has_previous /\ Allowed(st.previous_key)
    THEN [st EXCEPT !.options = [st.options EXCEPT ![st.previous_key] = @ \o l]]
    ELSE IF HasEquals(l)
         THEN [options |-> IF Allowed(KeyOf(l))
                           THEN [k \in DOMAIN st.options \cup {KeyOf(l)} |->
                                    IF k = KeyOf(l) THEN ValueOf(l) ELSE st.options[k]]
                           ELSE st.options,
               previous_key |-> KeyOf(l),
               has_previous |-> TRUE]
         ELSE st

RECURSIVE ParseLines(_, _)
ParseLines(st, ls) ==
    IF ls = <<>> THEN st ELSE ParseLines(ParseLine(st, Head(ls)), Tail(ls))

\* response["options"] for the text `git config --list` printed
ParseOptions(listing) ==
    ParseLines([options |-> <<>>, previous_key |-> <<>>, has_previous |-> FALSE],
               SplitLines(Strip(listing))).options

\* get mode: run `git config --list` and keep the allowed options
config_list ==
    /\ cfgPc = "list"
    /\ \E rc \in ExitStatuses :
          /\ invoked' = Append(invoked, [cmd |-> ListCmd, rc |-> rc])
          /\ IF rc # 0
             THEN /\ output' = <<>>
                  /\ cfgResponse' = [code |-> rc, command |-> ListCmd, message |-> <<"stderr">>]
             ELSE \E listing \in Listings :
                  /\ output' = listing
                  /\ cfgResponse' = [code |-> rc, options |-> ParseOptions(listing)]
    /\ cfgPc' = "done"
    /\ UNCHANGED <<gitConfig, kwargs, todo>>
    /\ UNCHANGED <<authVars, opVars, brVars, prVars, ctVars>>

NextConfig ==
    \/ config
    \/ config_add
    \/ config_set_return
    \/ config_list

InitConfig ==
    /\ gitConfig = {}
    /\ cfgPc = "idle"
    /\ kwargs = <<>>
    /\ todo = <<>>
    /\ invoked = <<>>
    /\ output = <<>>
    /\ cfgResponse = [code |-> 1]


(* ===================================================================== *)
(*            changed_files and the check_output operations              *)
(* ===================================================================== *)

\* string arguments: None, the empty string, a name
TruthyStr(x) == x \notin {"None", ""}

NoArgs == [base |-> "None", remote |-> "None", single_commit |-> "None",
           names |-> <<>>, is_str |-> TRUE]
NoResult == [none |-> TRUE]

\* what a child prints: a list of lines, each a list of tokens
Stdouts == { <<>>, << <<"f">> >>, << <<"f">>, <<"g">> >>, << <<"f">>, <<>> >> }

\* a slip that compares the working tree where the index is asked for
ChangedFilesCmd_no_staged(base, remote, single_commit) ==
    IF TruthyStr(single_commit)
    THEN <<"git", "diff", <<single_commit, "^!">>, "--name-only">>
    ELSE IF TruthyStr(base) /\ TruthyStr(remote)
         THEN IF base \in {"WORKING", "INDEX"}
              THEN <<"git", "diff", remote, "--name-only">>
              ELSE <<"git", "diff", base, remote, "--name-only">>
         ELSE <<>>
\* the if / elif / else of changed_files: the command, or <<>> for the raise
ChangedFilesCmd(base, remote, single_commit) ==
    IF TruthyStr(single_commit)
    THEN <<"git", "diff", <<single_commit, "^!">>, "--name-only">>
    ELSE IF TruthyStr(base) /\ TruthyStr(remote)
         THEN IF base = "WORKING"
              THEN <<"git", "diff", remote, "--name-only">>
              ELSE IF base = "INDEX"
                   THEN <<"git", "diff", "--staged", remote, "--name-only">>
                   ELSE <<"git", "diff", base, remote, "--name-only">>
         ELSE <<>>

\* changed_files(base, remote, single_commit)
changed_files ==
    /\ opPc \in {"idle", "done", "raised"}
    /\ \E b \in {"None", "", "WORKING", "INDEX", "a"},
          r \in {"None", "", "b"},
          c \in {"None", "", "c"} :
          LET cmd == ChangedFilesCmd(b, r, c) IN
          /\ opCall' = [op |-> "changed_files",
                        args |-> [NoArgs EXCEPT !.base = b, !.remote = r, !.single_commit = c]]
          /\ IF cmd = <<>>
             THEN \* raise HTTPError(400, ...)
                  /\ opRan' = <<>>
                  /\ opExit' = PyNone
                  /\ opOut' = <<>>
                  /\ opResult' = NoResult
                  /\ opExc' = "HTTPError400"
                  /\ opPc' = "raised"
             ELSE \* subprocess.check_output(cmd, stderr=STDOUT) in try / except
                  \E rc \in ExitStatuses, out \in Stdouts :
                  /\ opRan' = <<cmd>>
                  /\ opExit' = rc
                  /\ opOut' = out
                  /\ opResult' = IF rc = 0
                                 THEN [files |-> SplitLines(Strip(out)), code |-> 0]
                                 ELSE [message |-> out, code |-> rc]
                  /\ opExc' = "none"
                  /\ opPc' = "done"
    /\ UNCHANGED <<authVars, cfgVars, brVars, prVars, ctVars>>

\* return subprocess.check_output(cmd, cwd=...): the output when the child
\* exits 0, CalledProcessError raised when it does not
PlainOp(name, args, cmd) ==
    /\ opPc \in {"idle", "done", "raised"}
    /\ opCall' = [op |-> name, args |-> args]
    /\ opRan' = <<cmd>>
    /\ \E rc \in ExitStatuses, out \in Stdouts :
          /\ opExit' = rc
          /\ opOut' = out
          /\ IF rc = 0
             THEN /\ opResult' = [bytes |-> out]
                  /\ opExc' = "none"
                  /\ opPc' = "done"
             ELSE /\ opResult' = NoResult
                  /\ opExc' = "CalledProcessError"
                  /\ opPc' = "raised"
    /\ UNCHANGED <<authVars, cfgVars, brVars, prVars, ctVars>>

FileNames == {"f", "g"}

\* add(filename, top_repo_path): filename a str or a sequence of str
add ==
    \/ \E f \in FileNames :
          PlainOp("add", [NoArgs EXCEPT !.names = <<f>>], <<"git", "add", f>>)
    \/ \E fs \in { <<>>, <<"f", "g">> } :
          PlainOp("add", [NoArgs EXCEPT !.names = fs, !.is_str = FALSE], <<"git", "add">> \o fs)
add_all == PlainOp("add_all", NoArgs, <<"git", "add", "-A">>)
reset ==
    \E f \in FileNames :
       PlainOp("reset", [NoArgs EXCEPT !.names = <<f>>], <<"git", "reset", "--", f>>)
reset_all == PlainOp("reset_all", NoArgs, <<"git", "reset">>)
delete_commit ==
    \E c \in {"c"} :
       PlainOp("delete_commit", [NoArgs EXCEPT !.single_commit = c],
               <<"git", "revert", "--no-commit", c>>)
reset_to_commit ==
    \E c \in {"None", "", "c"} :
       PlainOp("reset_to_commit", [NoArgs EXCEPT !.single_commit = c],
               <<"git", "reset", "--hard">> \o (IF TruthyStr(c) THEN <<c>> ELSE <<>>))
checkout ==
    \E f \in FileNames :
       PlainOp("checkout", [NoArgs EXCEPT !.names = <<f>>], <<"git", "checkout", "--", f>>)
checkout_all == PlainOp("checkout_all", NoArgs, <<"git", "checkout", "--", ".">>)
commit ==
    \E m \in {"msg"} :
       PlainOp("commit", [NoArgs EXCEPT !.names = <<m>>], <<"git", "commit", "-m", m>>)
init == PlainOp("init", NoArgs, <<"git", "init">>)

NextOps ==
    \/ changed_files
    \/ add \/ add_all \/ reset \/ reset_all \/ delete_commit \/ reset_to_commit
    \/ checkout \/ checkout_all \/ commit \/ init

InitOps ==
    /\ opPc = "idle"
    /\ opCall = [op |-> "none", args |-> NoArgs]
    /\ opRan = <<>>
    /\ opExit = PyNone
    /\ opOut = <<>>
    /\ opResult = NoResult
    /\ opExc = "none"


(* ===================================================================== *)
(*                              Git.branch                               *)
(* ===================================================================== *)

BranchNames == <<"b1", "b2", "b3">>
RemoteNames == <<"origin/b1", "origin/b2", "origin/b3">>
Upstreams == {"", "origin/b1"}

\* The lines `git for-each-ref refs/heads/` prints for a repository with n
\* local branches of which HEAD points at branch h (h = 0: at none of them):
\* refname, objectname, upstream and the HEAD mark, split at the tabs.
HeadsOutputs ==
    { [i \in 1..n |-> <<BranchNames[i], "sha", up[i], IF i = h THEN "*" ELSE " ">>] :
        n \in 0..MaxRefs, h \in 0..MaxRefs, up \in [1..MaxRefs -> Upstreams] }
RemotesOutputs ==
    { [i \in 1..n |-> <<RemoteNames[i], "sha">>] : n \in 0..MaxRefs }

\* str.strip() of the HEAD field, which is "*" or " "
StripField(f) == IF f = " " THEN "" ELSE f

\* the dict built from one line of the heads query
HeadEntry(line) ==
    [is_current_branch |-> StripField(line[4]) # "",
     is_remote_branch |-> FALSE,
     name |-> line[1],
     upstream |-> IF line[3] # "" THEN line[3] ELSE "None",
     top_commit |-> line[2],
     tag |-> "None"]

\* the dict built from one line of the remotes query
RemoteEntry(line) ==
    [is_current_branch |-> FALSE,
     is_remote_branch |-> TRUE,
     name |-> line[1],
     upstream |-> "None",
     top_commit |-> line[2],
     tag |-> "None"]

\* the fallback dict, named by get_current_branch
FallbackEntry(name) ==
    [is_current_branch |-> TRUE,
     is_remote_branch |-> FALSE,
     name |-> name,
     upstream |-> "None",
     top_commit |-> "None",
     tag |-> "None"]

NoBranch == FallbackEntry("")
HeadsCmd == <<"git", "for-each-ref", "refs/heads/">>
RemotesCmd == <<"git", "for-each-ref", "refs/remotes/">>
SymbolicRefCmd == <<"git", "symbolic-ref", "HEAD">>
BranchACmd == <<"git", "branch", "-a">>

ParseHeads(lines) == [i \in 1..Len(lines) |-> HeadEntry(lines[i])]
\* current_branch after the loop: the last entry marked current, if any
HasCurrent(results) == \E i \in 1..Len(results) : results[i].is_current_branch
LastCurrent(results) ==
    results[CHOOSE i \in 1..Len(results) :
               /\ results[i].is_current_branch
               /\ \A j \in (i + 1)..Len(results) : ~results[j].is_current_branch]

\* a slip that adds the fallback entry whatever the loop found
NeedsFallback_always(results) == TRUE
\* `if not current_branch:`
NeedsFallback(results) == ~HasCurrent(results)

ErrorEnvelope(code, cmd, message) == [code |-> code, command |-> cmd, message |-> message]
NoEnvelope == [code |-> PyNone]

\* branch(current_path) starts: heads = self.branch_heads(current_path)
branch ==
    /\ brPc \in {"idle", "done"}
    /\ brPc' = "branch_heads"
    /\ headsOut' = <<>>
    /\ brRan' = <<>>
    /\ heads' = NoEnvelope
    /\ remotes' = NoEnvelope
    /\ brResult' = NoEnvelope
    /\ lookups' = <<>>
    /\ UNCHANGED <<authVars, cfgVars, opVars, prVars, ctVars>>

\* branch_heads: the refs/heads query and the loop over its lines.  A failed
\* query returns the error envelope, and branch() returns it in turn.
branch_heads ==
    /\ brPc = "branch_heads"
    /\ brRan' = Append(brRan, HeadsCmd)
    /\ \E rc \in ExitStatuses :
          IF rc # 0
          THEN /\ headsOut' = <<>>
               /\ heads' = ErrorEnvelope(rc, HeadsCmd, <<"stderr">>)
               /\ brResult' = heads'
               /\ brPc' = "done"
          ELSE \E out \in HeadsOutputs :
               /\ headsOut' = out
               /\ IF NeedsFallback(ParseHeads(out))
                  THEN /\ heads' = [code |-> rc, branches |-> ParseHeads(out),
                                    current_branch |-> NoBranch]
                       /\ brPc' = "get_current_branch"
                  ELSE /\ heads' = [code |-> rc, branches |-> ParseHeads(out),
                                    current_branch |-> LastCurrent(ParseHeads(out))]
                       /\ brPc' = "branch_remotes"
               /\ brResult' = brResult
    /\ UNCHANGED <<remotes, lookups>>
    /\ UNCHANGED <<authVars, cfgVars, opVars, prVars, ctVars>>

\* results.append(branch); current_branch = branch, with the name found
WithFallback(h, name) ==
    [h EXCEPT !.branches = Append(@, FallbackEntry(name)),
              !.current_branch = FallbackEntry(name)]

\* except Exception as downstream_error: the envelope with code -1
Downstream(message) == ErrorEnvelope(-1, HeadsCmd, message)

\* what `git symbolic-ref HEAD` prints, split at "/"
SymbolicRefs == { <<"refs", "heads", "b1">>, <<"refs", "heads", "feature", "x">> }
\* output.decode("utf-8").split('/')[-1].strip()
LastComponent(ref) == ref[Len(ref)]

\* what git writes on stderr when a lookup fails
NotSymbolicRef == "fatal: ref HEAD is not a symbolic ref"
OtherErrors == {"fatal: not a git repository", "fatal: unsafe repository"}
\* the text of the Exception raised for a failed command
ErrorText(stderr, command) ==
    <<"Error [", stderr, "] occurred while executing [", command, "] command">>
\* one lookup: the command, its exit code, what it printed and its error
Lookup(cmd, rc, out, stderr) == [cmd |-> cmd, rc |-> rc, out |-> out, error |-> stderr]

\* get_current_branch, called from the fallback of branch_heads
get_current_branch ==
    /\ brPc = "get_current_branch"
    /\ brRan' = Append(brRan, SymbolicRefCmd)
    /\ \/ \E ref \in SymbolicRefs :
             /\ lookups' = Append(lookups, Lookup("symbolic-ref", 0, ref, ""))
             /\ heads' = WithFallback(heads, LastComponent(ref))
             /\ brPc' = "branch_remotes"
             /\ brResult' = brResult
       \/ \* "not a symbolic ref" in the error text
          /\ lookups' = Append(lookups, Lookup("symbolic-ref", 128, <<>>, NotSymbolicRef))
          /\ heads' = heads
          /\ brPc' = "get_current_branch_detached"
          /\ brResult' = brResult
       \/ \* any other failure: raise Exception, caught in branch_heads
          \E stderr \in OtherErrors :
          /\ lookups' = Append(lookups, Lookup("symbolic-ref", 128, <<>>, stderr))
          /\ heads' = Downstream(ErrorText(stderr, "git symbolic-ref HEAD"))
          /\ brResult' = heads'
          /\ brPc' = "done"
    /\ UNCHANGED <<headsOut, remotes>>
    /\ UNCHANGED <<authVars, cfgVars, opVars, prVars, ctVars>>

\* the lines of `git branch -a`, stripped: marked with "*" or not
BranchALines == { [star |-> TRUE, name |-> "(HEAD detached at sha)"],
                  [star |-> FALSE, name |-> "b1"] }
BranchAOutputs == UNION { [1..n -> BranchALines] : n \in 0..2 }
HasStar(lines) == \E i \in 1..Len(lines) : lines[i].star
\* the first line that starts with "*", without the mark; None when no line does
FirstStarred(lines) ==
    IF HasStar(lines)
    THEN lines[CHOOSE i \in 1..Len(lines) :
                  lines[i].star /\ \A j \in 1..(i - 1) : ~lines[j].star].name
    ELSE "None"

\* _get_current_branch_detached
get_current_branch_detached ==
    /\ brPc = "get_current_branch_detached"
    /\ brRan' = Append(brRan, BranchACmd)
    /\ \/ \E lines \in BranchAOutputs :
             /\ lookups' = Append(lookups, Lookup("branch -a", 0, lines, ""))
             /\ heads' = WithFallback(heads, FirstStarred(lines))
             /\ brPc' = "branch_remotes"
             /\ brResult' = brResult
       \/ \* the listing failed: raise Exception, caught in branch_heads
          \E stderr \in OtherErrors :
          /\ lookups' = Append(lookups, Lookup("branch -a", 128, <<>>, stderr))
          /\ heads' = Downstream(ErrorText(stderr, "git branch -a"))
          /\ brResult' = heads'
          /\ brPc' = "done"
    /\ UNCHANGED <<headsOut, remotes>>
    /\ UNCHANGED <<authVars, cfgVars, opVars, prVars, ctVars>>

\* a slip that lists the remote entries first
Concatenated_remotes_first(h, r) ==
    [code |-> 0, branches |-> r.branches \o h.branches, current_branch |-> h.current_branch]
\* the value branch() returns when both queries succeeded
Concatenated(h, r) ==
    [code |-> 0, branches |-> h.branches \o r.branches, current_branch |-> h.current_branch]

\* remotes = self.branch_remotes(current_path), and the return of branch()
branch_remotes ==
    /\ brPc = "branch_remotes"
    /\ brRan' = Append(brRan, RemotesCmd)
    /\ \E rc \in ExitStatuses :
          IF rc # 0
          THEN /\ remotes' = ErrorEnvelope(rc, RemotesCmd, <<"stderr">>)
               /\ brResult' = remotes'
          ELSE \E out \in RemotesOutputs :
               /\ remotes' = [code |-> rc,
                              branches |-> [i \in 1..Len(out) |-> RemoteEntry(out[i])]]
               /\ brResult' = Concatenated(heads, remotes')
    /\ brPc' = "done"
    /\ UNCHANGED <<headsOut, heads, lookups>>
    /\ UNCHANGED <<authVars, cfgVars, opVars, prVars, ctVars>>

NextBranch ==
    \/ branch
    \/ branch_heads
    \/ get_current_branch
    \/ get_current_branch_detached
    \/ branch_remotes

InitBranch ==
    /\ brPc = "idle"
    /\ headsOut = <<>>
    /\ brRan = <<>>
    /\ heads = NoEnvelope
    /\ remotes = NoEnvelope
    /\ brResult = NoEnvelope
    /\ lookups = <<>>


(* ===================================================================== *)
(*                  the parsers: log, status, detailed_log               *)
(* ===================================================================== *)

\* Text is a sequence of tokens: "LF" is the newline, "FF" the form feed, any
\* other token a run of ordinary characters.  A line is the tokens between
\* two line boundaries; the empty string is <<>>.
LineBoundaries == {"LF", "FF"}

\* str.splitlines(): split at every line boundary; a boundary at the very end
\* opens no further line, and the empty text has no line
RECURSIVE SplitAt(_, _, _)
SplitAt(text, cur, acc) ==
    IF text = <<>>
    THEN IF cur = <<>> THEN acc ELSE Append(acc, cur)
    ELSE IF Head(text) \in LineBoundaries
         THEN SplitAt(Tail(text), <<>>, Append(acc, cur))
         ELSE SplitAt(Tail(text), Append(cur, Head(text)), acc)
splitlines(text) == SplitAt(text, <<>>, <<>>)

NoParse == [code |-> PyNone]

\* the commits `git log` walks: the i-th has id <<"id", i>>, an author, a
\* relative date and a subject, which may be empty or hold a form feed
CommitIds == << <<"id1">>, <<"id2">>, <<"id3">> >>
Subjects == { <<"subject">>, <<>>, <<"sub", "FF", "ject">> }
SubjectLists == UNION { [1..n -> Subjects] : n \in 0..MaxCommits }

\* --pretty=format:%H%n%an%n%ar%n%s of one commit
FormatCommit(id, subject) == id \o <<"LF", "author", "LF", "date", "LF">> \o subject
\* the output of git log: the commits' texts with a newline between two
RECURSIVE LogOutput(_, _)
LogOutput(subjects, k) ==
    IF k > Len(subjects) THEN <<>>
    ELSE FormatCommit(CommitIds[k], subjects[k])
         \o (IF k < Len(subjects) THEN <<"LF">> ELSE <<>>)
         \o LogOutput(subjects, k + 1)

\* the lines of one commit, hence the distance to the parent's id
PREVIOUS_COMMIT_OFFSET == 4

\* the while loop of log() from index i (1-based) on: the entries, or
\* raised when an index is past the end of line_array (IndexError)
RECURSIVE LogEntries(_, _, _)
LogEntries(la, i, acc) ==
    IF i > Len(la) THEN [raised |-> FALSE, commits |-> acc]
    ELSE IF i + PREVIOUS_COMMIT_OFFSET <= Len(la)
         THEN LogEntries(la, i + PREVIOUS_COMMIT_OFFSET,
                         Append(acc, [commit |-> la[i], author |-> la[i + 1],
                                      date |-> la[i + 2], commit_msg |-> la[i + 3],
                                      pre_commit |-> la[i + PREVIOUS_COMMIT_OFFSET]]))
         ELSE IF i + 3 > Len(la)
              THEN [raised |-> TRUE, commits |-> acc]
              ELSE LogEntries(la, i + PREVIOUS_COMMIT_OFFSET,
                              Append(acc, [commit |-> la[i], author |-> la[i + 1],
                                           date |-> la[i + 2], commit_msg |-> la[i + 3],
                                           pre_commit |-> <<>>]))

\* log(current_path, history_count)
log ==
    /\ prPc \in {"idle", "done", "raised"}
    /\ \E rc \in ExitStatuses, subjects \in SubjectLists :
          LET out == IF rc = 0 THEN LogOutput(subjects, 1) ELSE <<>>
              r == LogEntries(splitlines(out), 1, <<>>) IN
          /\ prCall' = [op |-> "log", rc |-> rc, out |-> out, subjects |-> subjects]
          /\ IF rc # 0
             THEN /\ prResult' = [code |-> rc, message |-> <<"stderr">>]
                  /\ prExc' = "none"
                  /\ prPc' = "done"
             ELSE IF r.raised
                  THEN /\ prResult' = NoParse
                       /\ prExc' = "IndexError"
                       /\ prPc' = "raised"
                  ELSE /\ prResult' = [code |-> rc, commits |-> r.commits]
                       /\ prExc' = "none"
                       /\ prPc' = "done"
    /\ UNCHANGED <<authVars, cfgVars, opVars, brVars, ctVars>>

\* ---- status
\* A line of `git status --porcelain` is XY, a space, and the rest: a path,
\* or for a rename or a copy "ORIG_PATH -> PATH".  "Q" is the double quote
\* git puts around a path with special characters, "ARROW" is " -> ".
StatusPaths == { <<"a.txt">>, <<"Q", "b c.txt", "Q">> }
MovedCodes == {"R", "C"}
MovedPairs == { pr \in StatusPaths \X StatusPaths : pr[1] # pr[2] }
StatusLines ==
    { [x |-> x, y |-> y, rest |-> pr[1] \o <<"ARROW">> \o pr[2]] :
          x \in MovedCodes, y \in {" ", "M"}, pr \in MovedPairs }
    \cup { [x |-> "M", y |-> y, rest |-> t] : y \in {" ", "M"}, t \in StatusPaths }
StatusOutputs == UNION { [1..n -> StatusLines] : n \in 0..MaxStatusLines }

\* str.split(" -> ")[-1]: what follows the last arrow, all of it without one
RECURSIVE AfterLastArrow(_)
AfterLastArrow(rest) ==
    IF \E i \in 1..Len(rest) : rest[i] = "ARROW"
    THEN AfterLastArrow(SubSeq(rest, (CHOOSE i \in 1..Len(rest) : rest[i] = "ARROW") + 1,
                               Len(rest)))
    ELSE rest
\* the startswith('"') and endswith('"') tests, one after the other
StripQuotes(t) ==
    LET t1 == IF t # <<>> /\ Head(t) = "Q" THEN Tail(t) ELSE t IN
    IF t1 # <<>> /\ t1[Len(t1)] = "Q" THEN SubSeq(t1, 1, Len(t1) - 1) ELSE t1
\* the body of the for loop of status()
StatusEntry(line) ==
    LET to1 == IF line.x = "R" THEN AfterLastArrow(line.rest) ELSE line.rest IN
    [x |-> line.x, y |-> line.y, to |-> StripQuotes(to1), from |-> line.rest]

\* status(current_path)
status ==
    /\ prPc \in {"idle", "done", "raised"}
    /\ \E rc \in ExitStatuses, lines \in StatusOutputs :
          LET out == IF rc = 0 THEN lines ELSE <<>> IN
          /\ prCall' = [op |-> "status", rc |-> rc, out |-> out]
          /\ prResult' = IF rc = 0
                         THEN [code |-> rc,
                               files |-> [i \in 1..Len(out) |-> StatusEntry(out[i])]]
                         ELSE [code |-> rc, command |-> <<"git status --porcelain">>,
                               message |-> <<"stderr">>]
          /\ prExc' = "none"
          /\ prPc' = "done"
    /\ UNCHANGED <<authVars, cfgVars, opVars, brVars, ctVars>>

\* ---- detailed_log
\* The output of git log -1 --stat --numstat --oneline of a commit with F
\* files: the one-line header, F numstat lines "ins<TAB>del<TAB>path", F stat
\* lines and the summary line.  A path is the sequence of its components; a
\* word of the summary is <<"digit", n>> when isdigit() holds for it and
\* <<"word", text>> otherwise.  A Python value is <<"int", n>> or <<"str", n>>
\* (the decimal text of n), so that the integer 0 differs from the text "0".
FilePaths == { <<"f.txt">>, <<"dir", "f.txt">> }
FileLists == UNION { [1..n -> FilePaths] : n \in 0..MaxFiles }
Counts == {1, 2}
FooterKinds == {"both", "zero", "insertions", "deletions"}

Footer(nfiles, kind, ins, del) ==
    << <<"digit", nfiles>>, <<"word", "files changed,">> >>
    \o (IF kind \in {"both", "insertions"}
        THEN << <<"digit", ins>>, <<"word", "insertions(+)">> >>
        ELSE IF kind = "zero" THEN << <<"digit", 0>>, <<"word", "insertions(+)">> >>
        ELSE <<>>)
    \o (IF kind \in {"both", "deletions"}
        THEN << <<"digit", del>>, <<"word", "deletions(-)">> >>
        ELSE IF kind = "zero" THEN << <<"digit", 0>>, <<"word", "deletions(-)">> >>
        ELSE <<>>)

DetailedLogOutput(files, kind, ins, del) ==
    << [kind |-> "oneline", words |-> <<>>] >>
    \o (IF files = <<>> THEN <<>>
        ELSE [i \in 1..Len(files) |->
                  [kind |-> "numstat",
                   words |-> <<IF kind \in {"both", "insertions"} THEN ins ELSE 0,
                               IF kind \in {"both", "deletions"} THEN del ELSE 0,
                               files[i]>>]]
             \o [i \in 1..Len(files) |-> [kind |-> "stat", words |-> <<files[i]>>]]
             \o << [kind |-> "footer", words |-> Footer(Len(files), kind, ins, del)] >>)

IsDigit(w) == w[1] = "digit"
\* "-" in temp
HasDash(temp) == \E i \in 1..Len(temp) : temp[i] = <<"word", "deletions(-)">>
\* note after the loop over the words of temp: the digits, in order, over
\* the initial [0] * 3
Note(temp) ==
    LET digits == SelectSeq(temp, IsDigit) IN
    [c \in 1..3 |-> IF c <= Len(digits) THEN <<"str", digits[c][2]>> ELSE <<"int", 0>>]
\* the entry appended for a numstat line
INSERTION_INDEX == 1
DELETION_INDEX == 2
MODIFIED_FILE_PATH_INDEX == 3
FileEntry(line_info) ==
    LET words == line_info[MODIFIED_FILE_PATH_INDEX] IN
    [modified_file_path |-> line_info[MODIFIED_FILE_PATH_INDEX],
     modified_file_name |-> words[Len(words)],
     insertion |-> line_info[INSERTION_INDEX],
     deletion |-> line_info[DELETION_INDEX]]
\* the value of `length` when line 331 tests it: len(line_array), unless the
\* for loop ran, which leaves in it the number of components of the path of
\* the last numstat line read
LengthAfterLoop(line_array) ==
    LET length == Len(line_array)
        last == (length \div 2) - 1 IN
    IF length > 1 /\ last >= 1
    THEN Len(line_array[last + 1].words[MODIFIED_FILE_PATH_INDEX])
    ELSE length
\* lines 331-335
Exchange(note, length, temp) ==
    IF note[3] = <<"int", 0>> /\ length > 1 /\ HasDash(temp)
    THEN [note EXCEPT ![2] = note[3], ![3] = note[2]]
    ELSE note

\* detailed_log(selected_hash, current_path)
detailed_log ==
    /\ prPc \in {"idle", "done", "raised"}
    /\ \E rc \in ExitStatuses, files \in FileLists, kind \in FooterKinds,
          ins \in Counts, del \in Counts :
          LET line_array == IF rc = 0 THEN DetailedLogOutput(files, kind, ins, del)
                            ELSE <<>>
              length == Len(line_array)
              temp == IF length > 1 THEN line_array[length].words ELSE <<>>
              note == Exchange(IF length > 1 THEN Note(temp) ELSE [c \in 1..3 |-> <<"int", 0>>],
                               LengthAfterLoop(line_array), temp)
              result == IF length > 1
                        THEN [n \in 1..((length \div 2) - 1) |->
                                  FileEntry(line_array[n + 1].words)]
                        ELSE <<>> IN
          /\ prCall' = [op |-> "detailed_log", rc |-> rc, files |-> files, kind |-> kind,
                        ins |-> ins, del |-> del]
          /\ prResult' = IF rc = 0
                         THEN [code |-> rc,
                               modified_file_note |-> temp,
                               modified_files_count |-> note[1],
                               number_of_insertions |-> note[2],
                               number_of_deletions |-> note[3],
                               modified_files |-> result]
                         ELSE [code |-> rc, command |-> <<"git log_1">>,
                               message |-> <<"stderr">>]
          /\ prExc' = "none"
          /\ prPc' = "done"
    /\ UNCHANGED <<authVars, cfgVars, opVars, brVars, ctVars>>

NextParsers ==
    \/ log
    \/ status
    \/ detailed_log

InitParsers ==
    /\ prPc = "idle"
    /\ prCall = [op |-> "none"]
    /\ prResult = NoParse
    /\ prExc = "none"

(* ===================================================================== *)
(*                  show, get_content and diff_content                   *)
(* ===================================================================== *)

FileName == "f.txt"
\* commits and branches; the empty ref "" names the index (git show :path)
GitRefs == {"HEAD", "abc123"}
IndexRef == ""
Contents == {"", "old text", "new text"}

\* what git writes on stderr when `git show ref:path` cannot name a blob
Diagnostic(msg, path, ref) == [msg |-> msg, path |-> path, ref |-> ref]
NoDiagnostic == Diagnostic("", "", "")
\* the path is not in the tree of the ref, or not in the index
PathMissingMessages == {
    "fatal: path '{}' exists on disk, but not in '{}'",
    "fatal: path '{}' does not exist in '{}'",
    "fatal: path '{}' exists on disk, but not in the index",
    "fatal: path '{}' does not exist (neither on disk nor in the index)" }
\* the diagnostics of git for ref:filename
Diagnostics(filename, ref) ==
    IF ref = IndexRef
    THEN { Diagnostic("fatal: path '{}' exists on disk, but not in the index", filename, ""),
           Diagnostic("fatal: path '{}' does not exist (neither on disk nor in the index)",
                      filename, "") }
    ELSE { Diagnostic("fatal: path '{}' exists on disk, but not in '{}'", filename, ref),
           Diagnostic("fatal: path '{}' does not exist in '{}'", filename, ref),
           Diagnostic("fatal: invalid object name '{}'", "", ref) }
\* the outcomes of the child of show(): exit 0 with the blob's text, or exit
\* 128 with a diagnostic
ShowOutcomes(filename, ref) ==
    { [rc |-> 0, out |-> c, err |-> NoDiagnostic] : c \in Contents }
    \cup { [rc |-> 128, out |-> "", err |-> d] : d \in Diagnostics(filename, ref) }

\* error_messages of show(), lowercased
error_messages(filename, ref) ==
    { Diagnostic("fatal: path '{}' exists on disk, but not in '{}'", filename, ref),
      Diagnostic("fatal: path '{}' does not exist (neither on disk nor in the index)",
                 filename, "") }

\* show(filename, ref, top_repo_path) for a child that ended as o
ShowResult(filename, ref, o) ==
    IF o.rc = 0 THEN [raised |-> FALSE, value |-> o.out]
    ELSE IF o.err \in error_messages(filename, ref) THEN [raised |-> FALSE, value |-> ""]
    ELSE [raised |-> TRUE, value |-> ""]

ShowRead(ref, o, r) == [via |-> "show", ref |-> ref, outcome |-> o, raised |-> r.raised]

\* show(filename, ref, top_repo_path) called on its own
show ==
    /\ ctPc \in {"idle", "done", "raised"}
    /\ \E ref \in GitRefs \cup {IndexRef} :
       \E o \in ShowOutcomes(FileName, ref) :
          LET r == ShowResult(FileName, ref, o) IN
          /\ ctCall' = [op |-> "show", ref |-> ref, special |-> "absent", prev |-> ref]
          /\ ctRan' = << ShowRead(ref, o, r) >>
          /\ ctResult' = [prev_content |-> r.value, curr_content |-> r.value]
          /\ ctExc' = IF r.raised THEN "HTTPError" ELSE "none"
          /\ ctPc' = IF r.raised THEN "raised" ELSE "done"
    /\ UNCHANGED <<authVars, cfgVars, opVars, brVars, prVars>>

\* get_content(filename, top_repo_path): the contents manager returns the
\* model's content or raises
GetContentOutcomes ==
    { [rc |-> 0, out |-> c, err |-> NoDiagnostic] : c \in Contents }
    \cup { [rc |-> 1, out |-> "", err |-> Diagnostic("contents manager error", FileName, "")] }
get_content(o) == [raised |-> o.rc # 0, value |-> o.out]

\* curr_ref: "special" is "absent" when the key is not in the dictionary
Specials == {"absent", "WORKING", "INDEX", "STASH"}

\* diff_content(filename, prev_ref, curr_ref, top_repo_path)
diff_content ==
    /\ ctPc \in {"idle", "done", "raised"}
    /\ \E prev \in GitRefs, curr \in GitRefs, special \in Specials :
       \E o1 \in ShowOutcomes(FileName, prev) :
          LET r1 == ShowResult(FileName, prev, o1)
              first == << ShowRead(prev, o1, r1) >> IN
          /\ ctCall' = [op |-> "diff_content", ref |-> curr, special |-> special,
                        prev |-> prev]
          /\ IF r1.raised
             THEN /\ ctRan' = first
                  /\ ctResult' = [prev_content |-> "", curr_content |-> ""]
                  /\ ctExc' = "HTTPError"
                  /\ ctPc' = "raised"
             ELSE IF special = "WORKING"
             THEN \E o2 \in GetContentOutcomes :
                     LET r2 == get_content(o2) IN
                     /\ ctRan' = Append(first, [via |-> "contents_manager", ref |-> "",
                                                outcome |-> o2, raised |-> r2.raised])
                     /\ ctResult' = [prev_content |-> r1.value, curr_content |-> r2.value]
                     /\ ctExc' = IF r2.raised THEN "HTTPError" ELSE "none"
                     /\ ctPc' = IF r2.raised THEN "raised" ELSE "done"
             ELSE IF special \notin {"absent", "INDEX"}
             THEN /\ ctRan' = first
                  /\ ctResult' = [prev_content |-> r1.value, curr_content |-> ""]
                  /\ ctExc' = "HTTPError"
                  /\ ctPc' = "raised"
             ELSE LET ref == IF special = "INDEX" THEN IndexRef ELSE curr IN
                  \E o2 \in ShowOutcomes(FileName, ref) :
                     LET r2 == ShowResult(FileName, ref, o2) IN
                     /\ ctRan' = Append(first, ShowRead(ref, o2, r2))
                     /\ ctResult' = [prev_content |-> r1.value, curr_content |-> r2.value]
                     /\ ctExc' = IF r2.raised THEN "HTTPError" ELSE "none"
                     /\ ctPc' = IF r2.raised THEN "raised" ELSE "done"
    /\ UNCHANGED <<authVars, cfgVars, opVars, brVars, prVars>>

NextContent ==
    \/ show
    \/ diff_content

InitContent ==
    /\ ctPc = "idle"
    /\ ctCall = [op |-> "none"]
    /\ ctRan = <<>>
    /\ ctResult = <<>>
    /\ ctExc = "none"

Init == InitHost({DefaultEnv}) /\ InitAuth /\ InitConfig /\ InitOps /\ InitBranch /\ InitParsers /\ InitContent
\* the same, in any host environment
InitAnyHost == InitHost(HostEnvs) /\ InitAuth /\ InitConfig /\ InitOps /\ InitBranch /\ InitParsers /\ InitContent

SpecAuth == InitAnyHost /\ [][NextAuth]_vars
SpecConfig == Init /\ [][NextConfig]_vars
SpecOps == Init /\ [][NextOps]_vars
SpecBranch == Init /\ [][NextBranch]_vars
SpecParsers == Init /\ [][NextParsers]_vars
SpecContent == Init /\ [][NextContent]_vars

(* ------------------- claims about the auth channel -------------------- *)

IsPrompt(e) == e \in {"Username", "Password"}
Count(seq, x) == Cardinality({ j \in 1..Len(seq) : seq[j] = x })
Range(seq) == { seq[j] : j \in 1..Len(seq) }

\* the child prints a Username prompt, then a Password prompt, then exits 0
PromptedTwiceThenExit0 ==
    /\ runner = "auth"
    /\ p.spawned
    /\ SelectSeq(child.script, IsPrompt) = <<"Username", "Password">>
    /\ child.term = "exit"
    /\ child.status = 0

\* C1: when clone, pull or push is called with credentials {u, p} and the
\* child prints a Username prompt, then a Password prompt, then exits 0, the
\* operation does not raise, exactly the two lines u and p are written to the
\* pseudo-terminal in that order, and the envelope returned has code 0.
C1_CredentialsSentInOrder ==
    PromptedTwiceThenExit0 =>
        /\ authPc # "raised"
        /\ authPc = "done" =>
              /\ written = <<call.auth.username, call.auth.password>>
              /\ response.code = 0

C1_Witness ==
    /\ PromptedTwiceThenExit0
    /\ authPc = "done"
    /\ call.op = "clone"
    /\ written = <<"u", "p">>
    /\ response = [code |-> 0]

\* C2: in every state of the auth channel the username has been written at
\* most once and the password at most once, the password is written only
\* once a Password prompt has been matched, and when the first prompt
\* matched is the Password prompt the username is never written.
C2_CredentialsWrittenOnce ==
    runner = "auth" =>
        /\ Count(written, call.auth.username) <= 1
        /\ Count(written, call.auth.password) <= 1
        /\ call.auth.password \in Range(written) => "Password" \in Range(matched)
        /\ (matched # <<>> /\ matched[1] = "Password") =>
               call.auth.username \notin Range(written)

C2_Witness ==
    /\ runner = "auth"
    /\ authPc = "done"
    /\ matched = <<"Password", "EOF">>
    /\ written = <<"p">>

\* end-of-stream arrived before the awaited prompt: the handler of line 60 ran
EOFBeforePrompt ==
    /\ runner = "auth"
    /\ p.spawned
    /\ child.term = "exit"
    /\ "Password" \notin Range(matched)
    /\ authPc \in {"return", "done"}

\* C3: when the child's output ends before the awaited prompt is matched
\* (before the first prompt, or after the username was sent), no error is
\* raised, the transcript captured so far is returned, and the envelope's
\* code is the child's final exit status.
C3_EOFBeforePromptKeepsStatus ==
    (EOFBeforePrompt /\ authPc = "done") =>
        /\ exc = "none"
        /\ error = p.before
        /\ response.code = child.status

\* C4: whenever communicate() has returned or raised, the handle it spawned
\* has been both waited on and closed.
C4_HandleReleased ==
    (p.spawned /\ authPc \in {"return", "done", "raised"}) =>
        (p.waited /\ p.closed)

\* C9: no step changes os.environ; the per-call environment differs from it
\* only in GIT_TERMINAL_PROMPT, which is "1" with the interactive channel as
\* runner exactly when credentials are supplied, and "0" with the plain
\* runner otherwise.
C9_HostEnvironmentUntouched ==
    /\ [][osEnviron' = osEnviron]_vars
    /\ [](runner # "none" =>
            /\ \A k \in EnvKeys \ {"GIT_TERMINAL_PROMPT"} : env[k] = osEnviron[k]
            /\ call.auth = Credentials =>
                   (runner = "auth" /\ env["GIT_TERMINAL_PROMPT"] = "1")
            /\ call.auth # Credentials =>
                   (runner = "popen" /\ env["GIT_TERMINAL_PROMPT"] = "0"))

C9_Witness ==
    /\ authPc = "done"
    /\ call.op = "push"
    /\ runner = "auth"
    /\ osEnviron["GIT_TERMINAL_PROMPT"] = "0"
    /\ env["GIT_TERMINAL_PROMPT"] = "1"

(* ----------------------- claims about config -------------------------- *)

InAllowList(k) == k \in { <<"user.name">>, <<"user.email">> }
\* the allow-listed keys of the keyword arguments, in the arguments' order
AllowListed(kw) == SelectSeq(kw, InAllowList)
SetMode == Len(kwargs) > 0

\* C7: in set mode the `git config --add` commands run are those of the
\* allow-listed keys, one per key in the arguments' order; only the last
\* command run can have failed (after a non-zero exit no later key is
\* attempted); a failure ends the call with that exit code, the command and
\* the stderr text in the envelope; every key whose command exited 0 stays
\* set in the configuration (no rollback).
C7_ConfigSetStopsAtFirstFailure ==
    SetMode =>
        LET n == Len(invoked)
            F == AllowListed(kwargs) IN
        /\ n <= Len(F)
        /\ \A j \in 1..n : invoked[j].cmd = <<"git", "config", "--add", F[j], OptionValue>>
        /\ \A j \in 1..(n - 1) : invoked[j].rc = 0
        /\ \A j \in 1..n : invoked[j].rc = 0 => <<F[j], OptionValue>> \in gitConfig
        /\ (n > 0 /\ invoked[n].rc # 0) =>
              /\ cfgPc = "done"
              /\ cfgResponse = [code |-> invoked[n].rc,
                                command |-> invoked[n].cmd,
                                message |-> <<"stderr">>]

C7_Witness ==
    /\ cfgPc = "done"
    /\ kwargs = << <<"user.name">>, <<"user.email">> >>
    /\ Len(invoked) = 1
    /\ invoked[1].rc = 128
    /\ cfgResponse.code = 128
    /\ <<"user.email">> \notin { kv[1] : kv \in gitConfig }

\* C8: every `git config --add` command config() runs is for an allow-listed
\* key, and the options mapping get mode returns has no key outside the
\* allow-list, whatever lines the listing holds.
C8_ConfigAllowListOnly ==
    /\ \A j \in 1..Len(invoked) :
          invoked[j].cmd[3] = "--add" => InAllowList(invoked[j].cmd[4])
    /\ (cfgPc = "done" /\ ~SetMode /\ cfgResponse.code = 0) =>
          \A k \in DOMAIN cfgResponse.options : InAllowList(k)

C8_Witness ==
    /\ cfgPc = "done"
    /\ ~SetMode
    /\ cfgResponse.code = 0
    /\ output = << <<"core.editor", "=", "Q">>, <<"user.name", "=", "Q">> >>
    /\ DOMAIN cfgResponse.options = { <<"user.name">> }

\* C19: config in set mode returns code 0 exactly when some allow-listed
\* key was given and every `git config --add` run exited 0; when keyword
\* arguments are given and none is allow-listed, no command is run and the
\* envelope has code 1 and an empty message.
C19_ConfigSetCode ==
    (cfgPc = "done" /\ SetMode) =>
        /\ cfgResponse.code = 0 <=>
              /\ AllowListed(kwargs) # <<>>
              /\ \A j \in 1..Len(invoked) : invoked[j].rc = 0
        /\ AllowListed(kwargs) = <<>> =>
              /\ invoked = <<>>
              /\ cfgResponse = [code |-> 1, message |-> <<>>]
C19_Witness ==
    /\ cfgPc = "done" /\ SetMode
    /\ AllowListed(kwargs) = <<>>
    /\ invoked = <<>>
    /\ cfgResponse.code = 1

(* ------------- claims about changed_files and the plain ops ----------- *)

Returned == opPc \in {"done", "raised"}

\* C5: changed_files called with single_commit and the (base, remote) pair
\* both set, or with neither set (only one of base and remote included),
\* fails with HTTP 400 and runs no subprocess.
C5_ChangedFilesRejectsBothOrNeither ==
    LET a == opCall.args
        pair == TruthyStr(a.base) /\ TruthyStr(a.remote)
        single == TruthyStr(a.single_commit) IN
    (Returned /\ opCall.op = "changed_files" /\ (single <=> pair)) =>
        (opExc = "HTTPError400" /\ opRan = <<>>)

\* C6: no operation lets a child's failure escape: when the child exits
\* non-zero the operation raises nothing and returns an envelope with a
\* non-zero code and a message.
C6_FailuresReturnEnvelopes ==
    (Returned /\ opExit # PyNone /\ opExit # 0) =>
        /\ opExc = "none"
        /\ "code" \in DOMAIN opResult
        /\ "message" \in DOMAIN opResult
        /\ opResult.code # 0

\* the names a child printed, one on each line
PrintedNames(out) == SelectSeq(out, LAMBDA l : l # <<>>)

CurrentEntries(bs) == { i \in 1..Len(bs) : bs[i].is_current_branch }

\* C10: when branch() returns code 0, exactly one entry of branches has
\* is_current_branch true; it is a local entry and it is current_branch; and
\* when no line of the refs/heads query is marked current, that entry is the
\* synthesized one, with top_commit None.
C10_ExactlyOneCurrentBranch ==
    (brPc = "done" /\ brResult.code = 0) =>
        LET bs == brResult.branches IN
        /\ Cardinality(CurrentEntries(bs)) = 1
        /\ \A i \in CurrentEntries(bs) :
              /\ ~bs[i].is_remote_branch
              /\ bs[i] = brResult.current_branch
              /\ (\A j \in 1..Len(headsOut) : headsOut[j][4] # "*") =>
                    (bs[i].top_commit = "None" /\ i = Len(headsOut) + 1)

C10_Witness ==
    /\ brPc = "done"
    /\ brResult.code = 0
    /\ headsOut = <<>>
    /\ Len(brResult.branches) = 2
    /\ brResult.branches[1].is_current_branch
    /\ brResult.branches[1].top_commit = "None"
    /\ brResult.branches[2].is_remote_branch

(* ----------------------- claims about the parsers --------------------- *)

\* C11: for a log output of K commits, four lines each, whatever the
\* subjects, log() returns K entries in the output's order, each entry's
\* pre_commit is the next entry's commit id, and the last one's is empty.
C11_LogReturnsEveryCommit ==
    (prPc \in {"done", "raised"} /\ prCall.op = "log" /\ prCall.rc = 0) =>
        LET K == Len(prCall.subjects) IN
        /\ prExc = "none"
        /\ Len(prResult.commits) = K
        /\ \A i \in 1..K : prResult.commits[i].commit = CommitIds[i]
        /\ \A i \in 1..(K - 1) :
              prResult.commits[i].pre_commit = prResult.commits[i + 1].commit
        /\ K > 0 => prResult.commits[K].pre_commit = <<>>

HasArrow(rest) == \E i \in 1..Len(rest) : rest[i] = "ARROW"

\* C12: for a well-formed status output of N lines, status() returns N
\* entries, and every line holding " -> ", whatever its state codes, gives an
\* entry whose "to" is the text after the arrow without its pair of quotes.
C12_StatusArrowGivesDestination ==
    (prPc = "done" /\ prCall.op = "status" /\ prCall.rc = 0) =>
        /\ Len(prResult.files) = Len(prCall.out)
        /\ \A i \in 1..Len(prCall.out) :
              HasArrow(prCall.out[i].rest) =>
                  prResult.files[i].to = StripQuotes(AfterLastArrow(prCall.out[i].rest))

\* the number a Python value stands for
NumberOf(v) == v[2]

\* C13: for a commit with at least one modified file, whatever the files'
\* paths, detailed_log reports the summary line's counts: insertions and
\* deletions in that order when both are there, insertions 0 and the count
\* as deletions when only deletions are, deletions 0 when only insertions are.
C13_DetailedLogTotals ==
    (prPc = "done" /\ prCall.op = "detailed_log" /\ prCall.rc = 0
        /\ Len(prCall.files) >= 1) =>
        LET i == NumberOf(prResult.number_of_insertions)
            d == NumberOf(prResult.number_of_deletions) IN
        CASE prCall.kind = "both" -> i = prCall.ins /\ d = prCall.del
          [] prCall.kind = "zero" -> i = 0 /\ d = 0
          [] prCall.kind = "deletions" -> i = 0 /\ d = prCall.del
          [] prCall.kind = "insertions" -> i = prCall.ins /\ d = 0

(* ------------------ claims about show and diff_content ---------------- *)

PathMissing(o) == o.rc # 0 /\ o.err.msg \in PathMissingMessages

\* C14: show returns the object's text when git exits 0, the empty string
\* when git fails saying the path does not exist at that ref, and raises
\* for every other non-zero exit.
C14_ShowMissingPathIsEmpty ==
    (ctPc \in {"done", "raised"} /\ ctCall.op = "show") =>
        LET o == ctRan[1].outcome IN
        /\ o.rc = 0 => ctPc = "done" /\ ctResult.curr_content = o.out
        /\ PathMissing(o) => ctPc = "done" /\ ctResult.curr_content = ""
        /\ (o.rc # 0 /\ ~PathMissing(o)) => ctPc = "raised" /\ ctExc = "HTTPError"

\* C16: diff_content reads prev_content with show at the previous ref;
\* curr_content comes from the contents manager for WORKING, from show with
\* the empty ref for INDEX, from show at the given ref without a special
\* endpoint, and an unknown special endpoint raises.  A path missing at the
\* previous ref gives an empty prev_content and no error.
C16_DiffContentStrategies ==
    (ctPc \in {"done", "raised"} /\ ctCall.op = "diff_content") =>
        /\ Len(ctRan) >= 1
        /\ ctRan[1].via = "show" /\ ctRan[1].ref = ctCall.prev
        /\ PathMissing(ctRan[1].outcome) =>
              ~ctRan[1].raised /\ (ctPc = "done" => ctResult.prev_content = "")
        /\ ~ctRan[1].raised =>
              CASE ctCall.special = "WORKING" ->
                      Len(ctRan) = 2 /\ ctRan[2].via = "contents_manager"
                [] ctCall.special = "INDEX" ->
                      Len(ctRan) = 2 /\ ctRan[2].via = "show" /\ ctRan[2].ref = IndexRef
                [] ctCall.special = "absent" ->
                      Len(ctRan) = 2 /\ ctRan[2].via = "show" /\ ctRan[2].ref = ctCall.ref
                [] OTHER -> Len(ctRan) = 1 /\ ctPc = "raised"
        /\ ctPc = "done" =>
              /\ ctResult.prev_content = (IF ctRan[1].outcome.rc = 0
                                          THEN ctRan[1].outcome.out ELSE "")
              /\ ctResult.curr_content = (IF ctRan[2].outcome.rc = 0
                                          THEN ctRan[2].outcome.out ELSE "")

\* the branch a symbolic ref names: what follows refs/heads/
BranchOf(ref) == SubSeq(ref, 3, Len(ref))
Contains(message, text) == \E i \in 1..Len(message) : message[i] = text
LookedUp == brPc \in {"branch_remotes", "done"} /\ lookups # <<>>

\* C17: get_current_branch tries the symbolic-ref lookup first and returns
\* the branch's name when it succeeds; it scans the branch listing for the
\* marked entry only after a "not a symbolic ref" failure; any other failure
\* of the lookup, and a failure of the listing, raises with the error text,
\* and branch() then returns an envelope with a non-zero code.
C17_CurrentBranchLookup ==
    LookedUp =>
        LET first == lookups[1]
            last == lookups[Len(lookups)] IN
        /\ first.cmd = "symbolic-ref"
        /\ first.rc = 0 =>
              /\ Len(lookups) = 1
              /\ BranchOf(first.out) = <<heads.current_branch.name>>
        /\ Len(lookups) = 2 <=> (first.rc # 0 /\ first.error = NotSymbolicRef)
        /\ Len(lookups) = 2 => last.cmd = "branch -a"
        /\ (Len(lookups) = 2 /\ last.rc = 0) =>
              heads.current_branch.name = FirstStarred(last.out)
        /\ (last.rc # 0 /\ last.error # NotSymbolicRef) =>
              /\ brPc = "done"
              /\ brResult.code # 0
              /\ "branches" \notin DOMAIN brResult
              /\ Contains(brResult.message, last.error)

Ran(cmd) == \E i \in 1..Len(brRan) : brRan[i] = cmd

\* C18: branch() runs the refs/heads query first and the refs/remotes query
\* only after the first succeeded; when a query fails, branch() returns that
\* query's error envelope, without branches; when both succeed, branches is
\* the local entries followed by the remote ones, every remote entry is
\* remote and not current, and current_branch is the one of the local query.
C18_BranchQueriesInOrder ==
    /\ brRan # <<>> => brRan[1] = HeadsCmd
    /\ Ran(RemotesCmd) =>
          /\ brRan[Len(brRan)] = RemotesCmd
          /\ heads.code = 0
    /\ brPc = "done" =>
          /\ heads.code # 0 =>
                /\ ~Ran(RemotesCmd)
                /\ brResult = heads
                /\ brResult.command = HeadsCmd
                /\ "branches" \notin DOMAIN brResult
          /\ (heads.code = 0 /\ remotes.code # 0) =>
                /\ brResult = remotes
                /\ brResult.command = RemotesCmd
                /\ "branches" \notin DOMAIN brResult
          /\ (heads.code = 0 /\ remotes.code = 0) =>
                LET n == Len(heads.branches) IN
                /\ brResult.code = 0
                /\ brResult.branches = heads.branches \o remotes.branches
                /\ \A i \in 1..Len(brResult.branches) :
                      /\ i <= n => ~brResult.branches[i].is_remote_branch
                      /\ i > n => /\ brResult.branches[i].is_remote_branch
                                  /\ ~brResult.branches[i].is_current_branch
                /\ brResult.current_branch = heads.current_branch
C18_Witness ==
    /\ brPc = "done" /\ brResult.code = 0
    /\ Len(heads.branches) >= 1 /\ Len(remotes.branches) >= 1
    /\ Len(brResult.branches) >= 2

====
